---- MODULE Spec2Model ----
(***************************************************************************)
(* State-machine model of MessageBoxClient (delivery engine, room          *)
(* membership, push channel life cycle, durable send).                     *)
(*                                                                         *)
(* One client instance.  Every public method invocation is a "call" that   *)
(* occupies a slot of Calls and advances through program points (pc).      *)
(* A step runs one synchronous segment of the method, up to its next       *)
(* await.  JavaScript runs continuations of already-settled promises       *)
(* (microtasks) before any timer or I/O callback (macrotask): program      *)
(* points in MicroPCs are such continuations, and every timer, socket      *)
(* event and I/O completion is guarded by NoMicro.                         *)
(***************************************************************************)
EXTENDS Integers, FiniteSets, Sequences, TLC

\* ------------------------------------------------------------------ bounds
MaxCalls == 2
MaxSockets == 2
MaxBatch == 2     \* messages in one host's answer to listMessages
MaxLive == 2      \* messages pushed to one live listener

Calls == 1..MaxCalls
Socks == 1..MaxSockets

\* ------------------------------------------------------------------ values
Null == "<null>"
Me == "me"
Bob == "bob"
DefaultHost == "https://default"    \* DEFAULT_MAINNET_HOST
TestnetHost == "https://staging"    \* DEFAULT_TESTNET_HOST
MaxOutputs == 2   \* outputs in one answer of the lookup service
InboxBox == "inbox"

Trim(s) == IF s \in {"", "  "} THEN "" ELSE s
IsBlank(s) == s = Null \/ Trim(s) = ""

\* JSON.stringify of a string body
JsonStringify(body) == "'" \o body \o "'"

\* walletClient.createHmac(args), hex-encoded: a deterministic function of
\* its arguments
DerivedId(args) ==
  "hmac(" \o args.data \o "," \o args.protocolID \o "," \o args.keyID \o "," \o args.counterparty \o ")"

\* The createHmac arguments of sendMessage
SendHmacArgs(body, recipient) ==
  [data |-> JsonStringify(body), protocolID |-> "1-messagebox", keyID |-> "1", counterparty |-> recipient]

\* Variant: the push path derives the identifier from the unserialized body.
LiveHmacArgsRaw(body, recipient) ==
  [data |-> body, protocolID |-> "1-messagebox", keyID |-> "1", counterparty |-> recipient]

\* The createHmac arguments of sendLiveMessage
LiveHmacArgs(body, recipient) ==
  [data |-> JsonStringify(body), protocolID |-> "1-messagebox", keyID |-> "1", counterparty |-> recipient]

RoomId(identity, box) == <<identity, box>>

NoArgs == [recipient |-> Null, box |-> Null, body |-> Null, mid |-> Null, skipEnc |-> FALSE, perm |-> FALSE,
           host |-> Null, messageIds |-> <<>>, amount |-> 0, originator |-> Null]

\* Arguments of sendMessage / sendLiveMessage
ValidArgs ==
  { [recipient |-> Bob, box |-> InboxBox, body |-> "hi", mid |-> m, skipEnc |-> s, perm |-> p,
      host |-> Null, messageIds |-> <<>>, amount |-> 0, originator |-> Null] :
      <<m, s, p>> \in { <<Null, FALSE, FALSE>>, <<"m1", TRUE, TRUE>> } }
InvalidArgs ==
  { [NoArgs EXCEPT !.recipient = "  ", !.box = InboxBox, !.body = "hi"],
    [NoArgs EXCEPT !.recipient = Bob, !.body = "hi"],
    [NoArgs EXCEPT !.recipient = Bob, !.box = InboxBox, !.body = ""] }
SendArgs == ValidArgs \cup InvalidArgs
BoxArgs == [NoArgs EXCEPT !.box = InboxBox]

\* Arguments of listMessages / acknowledgeMessage
OtherHost == "https://other"
ListArgs ==
  { [NoArgs EXCEPT !.box = b, !.host = h] : b \in {InboxBox, "  "}, h \in {Null, OtherHost} }
AckArgs ==
  { [NoArgs EXCEPT !.messageIds = ids, !.host = h] : ids \in {<<>>, <<"a">>}, h \in {Null, OtherHost} }

\* Arguments of acceptPayment / rejectPayment: an IncomingPayment with its
\* messageId, sender and token.amount
PaymentAmounts == {1999, 2000, 3000}
PayArgs == { [NoArgs EXCEPT !.recipient = Bob, !.messageIds = <<"p">>, !.amount = a] : a \in PaymentAmounts }

\* Arguments of listMessages and acknowledgeMessage that decide the hosts
\* they address: the host override and the originator.
HostsArgs ==
  { [NoArgs EXCEPT !.box = InboxBox, !.messageIds = <<"a">>, !.host = h, !.originator = o] :
      h \in {Null, OtherHost}, o \in {Null, "app.example", "https://other"} }

ArgsValid(a) == ~IsBlank(a.recipient) /\ ~IsBlank(a.box) /\ ~IsBlank(a.body)

NoHttp == [recipient |-> Null, box |-> Null, body |-> Null, id |-> Null, encrypted |-> FALSE,
           payment |-> FALSE, host |-> Null]

\* ------------------------------------------------------------------ state
VARIABLES
  initialized,     \* this.initialized
  myIdentityKey,   \* this.myIdentityKey (Null when not yet fetched)
  socket,          \* this.socket: 0 = undefined, else the socket object
  joinedRooms,     \* this.joinedRooms
  nSock,           \* number of socket objects created so far
  connected,       \* socket.connected, per socket object
  closed,          \* socket.disconnect() was called on the object (no reconnection)
  identitySent,    \* closure variable of initializeConnection, per socket object
  authenticated,   \* closure variable of initializeConnection, per socket object
  host,            \* this.host
  networkPreset,   \* this.networkPreset
  selfAd,          \* directory holds an advertisement for (own identity, host)
  calls            \* per call: arguments, program point, locals, observations

vars == <<initialized, myIdentityKey, socket, joinedRooms, nSock, connected, closed,
          identitySent, authenticated, selfAd, host, networkPreset, calls>>

sockVars == <<nSock, connected, closed, identitySent, authenticated>>

IdleCall ==
  [op |-> "none", pc |-> "idle", ret |-> "idle", icRet |-> "idle", waitSock |-> 0,
   args |-> NoArgs,
   finalId |-> Null, handled |-> FALSE, listening |-> FALSE, ackSock |-> 0,
   timer |-> FALSE, ackOwed |-> FALSE, path |-> "none",
   sm |-> [id |-> Null, skipEnc |-> FALSE, perm |-> FALSE, host |-> Null],
   smId |-> Null, payment |-> FALSE,
   outcome |-> "none", cause |-> "none", via |-> "none",
   nQuery |-> 0, nBroadcast |-> 0, nJoinEmit |-> 0, nLeaveEmit |-> 0,
   nPush |-> 0, push |-> NoHttp, nDurable |-> 0, nHttp |-> 0, http |-> NoHttp,
   nResolve |-> 0, nSettle |-> 0, authAtReturn |-> FALSE, joinSock |-> 0,
   after |-> FALSE, live |-> "?", hadHandle |-> FALSE, wasConnected |-> FALSE,
   memberBeforeLeave |-> FALSE, memberAfterLeave |-> FALSE, hmacFail |-> FALSE,
   hosts |-> <<>>, answers |-> <<>>, settled |-> <<>>, result |-> <<>>, value |-> Null,
   err |-> [message |-> "", hostErrors |-> <<>>],
   payFailed |-> {}, undecryptable |-> {},
   listenSock |-> 0, received |-> <<>>, decrypting |-> <<>>, delivered |-> <<>>,
   quote |-> [kind |-> "none", recipientFee |-> 0, deliveryFee |-> 0, agentKey |-> FALSE],
   walletFail |-> "none", paymentData |-> <<>>,
   response |-> [kind |-> "none", description |-> ""], errParts |-> <<>>,
   initAtStart |-> FALSE, initFound |-> "?",
   apRet |-> "idle", accepted |-> "?", nAck |-> 0, nRefund |-> 0, refund |-> 0,
   lookup |-> [type |-> "none", outputs |-> <<>>],
   dir |-> <<>>, ackHosts |-> <<>>]

MicroPCs == {"ic_start", "jr_start", "jr_check", "jr_add", "listen_on", "sl_validate",
             "sl_live", "sm_validate", "lr", "dw", "lm_start", "am_start", "rp_start"}

NoMicro == \A c \in Calls : calls[c].pc \notin MicroPCs

Set(c, r) == calls' = [calls EXCEPT ![c] = r]

Init ==
  /\ initialized = FALSE
  /\ myIdentityKey = Null
  /\ socket = 0
  /\ joinedRooms = {}
  /\ nSock = 0
  /\ connected = [s \in Socks |-> FALSE]
  /\ closed = [s \in Socks |-> FALSE]
  /\ identitySent = [s \in Socks |-> FALSE]
  /\ authenticated = [s \in Socks |-> FALSE]
  /\ selfAd \in BOOLEAN
  /\ host = DefaultHost
  /\ networkPreset = "mainnet"
  /\ calls = [c \in Calls |-> IdleCall]


\* ------------------------------------------------------------------ settling
\* The promise of the call is resolved / rejected.
Resolved(r, how) ==
  [r EXCEPT !.pc = "done", !.outcome = "resolved", !.via = how, !.nSettle = @ + 1]

Rejected(r, why) ==
  [r EXCEPT !.pc = "done", !.outcome = "rejected", !.cause = why, !.nSettle = @ + 1]

\* ------------------------------------------------------------------ init()
FirstPc(op) ==
  CASE op = "initConn"   -> "ic_start"
    [] op = "join"       -> "jr_start"
    [] op = "listen"     -> "jr_start"
    [] op = "sendLive"   -> "sl_validate"
    [] op = "send"       -> "sm_validate"
    [] op = "leave"      -> "lr"
    [] op = "disconnect" -> "dw"
    [] op = "list"       -> "lm_start"
    [] op = "ack"        -> "am_start"
    [] op = "accept"     -> "ap_internalize"
    [] op = "reject"     -> "rp_start"
    [] op = "resolve"    -> "rh_query"
    [] op = "hosts"      -> "hs_query"

\* Variant: init() runs whether or not the client is initialized.
assertInitializedAlways(r, next) == [r EXCEPT !.pc = "init_query", !.ret = next]

\* assertInitialized(): run init() unless the client is initialized.
\* Every public method awaits it first.
assertInitialized(r, next) ==
  IF initialized THEN [r EXCEPT !.pc = next]
  ELSE [r EXCEPT !.pc = "init_query", !.ret = next]

OpArgs(op) ==
  CASE op \in {"sendLive", "send"} -> SendArgs
    [] op = "list" -> ListArgs
    [] op = "ack" -> AckArgs
    [] op \in {"accept", "reject"} -> PayArgs
    [] op = "resolve" -> {[NoArgs EXCEPT !.recipient = Bob]}
    [] op = "hosts" -> HostsArgs
    [] op \in {"join", "listen", "leave"} -> {BoxArgs}
    [] OTHER -> {NoArgs}

Ops == {"initConn", "join", "listen", "sendLive", "send", "leave", "disconnect", "list", "ack",
        "accept", "reject", "resolve", "hosts"}

\* resolveHostForRecipient starts with queryAdvertisements, without
\* assertInitialized.
FirstStep(r, op) ==
  IF op = "resolve" THEN [r EXCEPT !.pc = FirstPc(op)] ELSE assertInitialized(r, FirstPc(op))

\* acceptPayment and rejectPayment do not await assertInitialized themselves;
\* the payment they are given was received by this client.
PayOps == {"accept", "reject"}

\* A public method is invoked (slots are used in order).
Start(c, op, a) ==
  /\ calls[c].pc = "idle"
  /\ \A d \in Calls : d < c => calls[d].pc # "idle"
  /\ op \in PayOps => initialized
  /\ Set(c, FirstStep(
            [IdleCall EXCEPT !.op = op, !.args = a, !.nDurable = IF op = "send" THEN 1 ELSE 0,
                             !.after = (\A d \in Calls : d < c => calls[d].pc = "done"),
                             !.initAtStart = initialized,
                             !.sm = [id |-> a.mid, skipEnc |-> a.skipEnc, perm |-> a.perm, host |-> Null]],
            op))
  /\ UNCHANGED <<host, networkPreset, initialized, myIdentityKey, socket, joinedRooms, sockVars, selfAd>>

\* init(): getIdentityKey, then queryAdvertisements(identityKey, host).
\* The query yields the advertisement when the directory holds one and the
\* lookup succeeds; a failed lookup yields the empty list.
InitQuery(c) ==
  /\ calls[c].pc = "init_query"
  /\ NoMicro
  /\ myIdentityKey' = Me
  /\ \E found \in (IF selfAd THEN BOOLEAN ELSE {FALSE}) :
       IF found
       THEN /\ initialized' = TRUE
            /\ Set(c, [calls[c] EXCEPT !.pc = calls[c].ret, !.nQuery = @ + 1, !.initFound = "yes"])
       ELSE /\ UNCHANGED initialized
            /\ Set(c, [calls[c] EXCEPT !.pc = "init_anoint", !.nQuery = @ + 1, !.initFound = "no"])
  /\ UNCHANGED <<host, networkPreset, socket, joinedRooms, sockVars, selfAd>>

\* init(): anointHost(host) broadcasts the advertisement, or throws.
InitAnoint(c) ==
  /\ calls[c].pc = "init_anoint"
  /\ NoMicro
  /\ \E ok \in BOOLEAN :
       IF ok
       THEN /\ initialized' = TRUE
            /\ selfAd' = TRUE
            /\ Set(c, [calls[c] EXCEPT !.pc = calls[c].ret, !.nBroadcast = @ + 1])
       ELSE /\ UNCHANGED <<initialized, selfAd>>
            /\ Set(c, Rejected([calls[c] EXCEPT !.nBroadcast = @ + 1], "init"))
  /\ UNCHANGED <<host, networkPreset, myIdentityKey, socket, joinedRooms, sockVars>>

\* ------------------------------------------------------- initializeConnection
\* Continuation after joinRoom returned, by caller.
AfterJoin(r) ==
  CASE r.op = "join"     -> Resolved(r, "join")
    [] r.op = "listen"   -> [r EXCEPT !.pc = "listen_on"]
    [] r.op = "sendLive" -> [r EXCEPT !.pc = "sl_live"]

\* initializeConnection after assertInitialized: open a socket and wait for
\* the 5 s timer when there is no handle, return at once when there is one.
OpenOrReturn(c, r, cont) ==
  IF socket = 0
  THEN /\ nSock < MaxSockets
       /\ nSock' = nSock + 1
       /\ socket' = nSock + 1
       /\ Set(c, [r EXCEPT !.pc = "ic_wait", !.waitSock = nSock + 1, !.icRet = cont])
       /\ UNCHANGED <<connected, closed, identitySent, authenticated>>
  ELSE /\ Set(c, IF cont = "resolved"
                 THEN Resolved([r EXCEPT !.authAtReturn = authenticated[socket]], "init")
                 ELSE [r EXCEPT !.pc = cont])
       /\ UNCHANGED <<socket, sockVars>>

initializeConnection(c) ==
  /\ calls[c].pc = "ic_start"
  /\ OpenOrReturn(c, calls[c], "resolved")
  /\ UNCHANGED <<host, networkPreset, initialized, myIdentityKey, joinedRooms, selfAd>>

\* The 5 s timer of initializeConnection.
AuthTimer(c) ==
  /\ calls[c].pc = "ic_wait"
  /\ NoMicro
  /\ LET r == calls[c]
         s == r.waitSock
     IN IF authenticated[s]
        THEN Set(c, IF r.icRet = "resolved"
                    THEN Resolved([r EXCEPT !.authAtReturn = (socket # 0 /\ authenticated[socket])], "init")
                    ELSE [r EXCEPT !.pc = r.icRet])
        ELSE Set(c, Rejected(r, "auth"))
  /\ UNCHANGED <<host, networkPreset, initialized, myIdentityKey, socket, joinedRooms, sockVars, selfAd>>

\* ------------------------------------------------------------------ joinRoom
\* joinRoom from the membership test on: return when the room is a member,
\* else emit 'joinRoom' on the handle (if any) and await the emit.
JoinCheck(c, r) ==
  IF RoomId(myIdentityKey, r.args.box) \in joinedRooms
  THEN Set(c, AfterJoin(r))
  ELSE Set(c, [r EXCEPT !.pc = "jr_add", !.nJoinEmit = IF socket # 0 THEN @ + 1 ELSE @,
                        !.joinSock = socket])

\* joinRoom after assertInitialized: initialize the connection when there is
\* no handle.
joinRoom(c) ==
  /\ calls[c].pc = "jr_start"
  /\ IF socket = 0
     THEN OpenOrReturn(c, calls[c], "jr_check")
     ELSE /\ JoinCheck(c, calls[c])
          /\ UNCHANGED <<socket, sockVars>>
  /\ UNCHANGED <<host, networkPreset, initialized, myIdentityKey, joinedRooms, selfAd>>

\* joinRoom after initializeConnection returned.
JoinAfterConnect(c) ==
  /\ calls[c].pc = "jr_check"
  /\ JoinCheck(c, calls[c])
  /\ UNCHANGED <<host, networkPreset, initialized, myIdentityKey, socket, joinedRooms, sockVars, selfAd>>

\* joinRoom after the awaited emit: record the room.
JoinAdd(c) ==
  /\ calls[c].pc = "jr_add"
  /\ joinedRooms' = joinedRooms \cup {RoomId(myIdentityKey, calls[c].args.box)}
  /\ Set(c, AfterJoin(calls[c]))
  /\ UNCHANGED <<host, networkPreset, initialized, myIdentityKey, socket, sockVars, selfAd>>

\* listenForLiveMessages after joinRoom: this.socket?.on('sendMessage-<room>')
listenForLiveMessages(c) ==
  /\ calls[c].pc = "listen_on"
  /\ Set(c, Resolved([calls[c] EXCEPT !.listenSock = socket], "listen"))
  /\ UNCHANGED <<host, networkPreset, initialized, myIdentityKey, socket, joinedRooms, sockVars, selfAd>>

\* Variant: the room is not deleted from the membership set.
leaveRoomKeepsRoom(c) ==
  /\ calls[c].pc = "lr"
  /\ LET room == RoomId(myIdentityKey, calls[c].args.box)
         r == [calls[c] EXCEPT !.hadHandle = (socket # 0),
                               !.wasConnected = (socket # 0 /\ connected[socket]),
                               !.memberBeforeLeave = (room \in joinedRooms),
                               !.memberAfterLeave = (room \in joinedRooms')]
     IN /\ UNCHANGED joinedRooms
        /\ Set(c, Resolved([r EXCEPT !.nLeaveEmit = IF socket = 0 THEN @ ELSE @ + 1], "leave"))
  /\ UNCHANGED <<host, networkPreset, initialized, myIdentityKey, socket, sockVars, selfAd>>

\* leaveRoom after assertInitialized.
leaveRoom(c) ==
  /\ calls[c].pc = "lr"
  /\ LET room == RoomId(myIdentityKey, calls[c].args.box)
         r == [calls[c] EXCEPT !.hadHandle = (socket # 0),
                               !.wasConnected = (socket # 0 /\ connected[socket]),
                               !.memberBeforeLeave = (room \in joinedRooms),
                               !.memberAfterLeave = (room \in joinedRooms')]
     IN IF socket = 0
        THEN /\ UNCHANGED joinedRooms
             /\ Set(c, Resolved(r, "leave"))
        ELSE /\ joinedRooms' = joinedRooms \ {room}
             /\ Set(c, Resolved([r EXCEPT !.nLeaveEmit = @ + 1], "leave"))
  /\ UNCHANGED <<host, networkPreset, initialized, myIdentityKey, socket, sockVars, selfAd>>

\* The 'disconnect' handler registered by initializeConnection on socket s
\* (it clears this.socket whichever socket the client holds).
OnDisconnect(s) ==
  /\ connected' = [connected EXCEPT ![s] = FALSE]
  /\ identitySent' = [identitySent EXCEPT ![s] = FALSE]
  /\ authenticated' = [authenticated EXCEPT ![s] = FALSE]
  /\ socket' = 0

LoseAcks(s, cs) ==
  [c \in Calls |-> IF cs[c].ackSock = s THEN [cs[c] EXCEPT !.ackOwed = FALSE] ELSE cs[c]]

\* disconnectWebSocket after assertInitialized: socket.disconnect() fires the
\* 'disconnect' handler when the socket is connected; the handle is cleared.
disconnectWebSocket(c) ==
  /\ calls[c].pc = "dw"
  /\ IF socket # 0
     THEN /\ closed' = [closed EXCEPT ![socket] = TRUE]
          /\ IF connected[socket]
             THEN OnDisconnect(socket)
             ELSE socket' = 0 /\ UNCHANGED <<connected, identitySent, authenticated>>
          /\ calls' = [LoseAcks(socket, calls) EXCEPT ![c] = Resolved(calls[c], "disconnect")]
     ELSE /\ Set(c, Resolved(calls[c], "disconnect"))
          /\ UNCHANGED <<socket, connected, closed, identitySent, authenticated>>
  /\ UNCHANGED <<host, networkPreset, initialized, myIdentityKey, joinedRooms, nSock, selfAd>>

\* ------------------------------------------------------------ socket events
\* 'connect' handler: send the identity once per connection.
OnConnect(s) ==
  /\ s <= nSock
  /\ ~connected[s]
  /\ ~closed[s]
  /\ NoMicro
  /\ connected' = [connected EXCEPT ![s] = TRUE]
  /\ identitySent' = [identitySent EXCEPT ![s] = TRUE]
  /\ UNCHANGED <<host, networkPreset, initialized, myIdentityKey, socket, joinedRooms, nSock, closed, authenticated,
                 selfAd, calls>>

\* The connection of socket s drops (remote side or transport).
SocketDisconnected(s) ==
  /\ s <= nSock
  /\ connected[s]
  /\ NoMicro
  /\ OnDisconnect(s)
  /\ calls' = LoseAcks(s, calls)
  /\ UNCHANGED <<host, networkPreset, initialized, myIdentityKey, joinedRooms, nSock, closed, selfAd>>

\* 'authenticationSuccess' handler
OnAuthenticationSuccess(s) ==
  /\ s <= nSock
  /\ connected[s]
  /\ ~authenticated[s]
  /\ NoMicro
  /\ authenticated' = [authenticated EXCEPT ![s] = TRUE]
  /\ UNCHANGED <<host, networkPreset, initialized, myIdentityKey, socket, joinedRooms, nSock, connected, closed,
                 identitySent, selfAd, calls>>

\* 'authenticationFailed' handler
OnAuthenticationFailed(s) ==
  /\ s <= nSock
  /\ connected[s]
  /\ authenticated[s]
  /\ NoMicro
  /\ authenticated' = [authenticated EXCEPT ![s] = FALSE]
  /\ UNCHANGED <<host, networkPreset, initialized, myIdentityKey, socket, joinedRooms, nSock, connected, closed,
                 identitySent, selfAd, calls>>

\* ------------------------------------------------------------ sendMessage
Message(r, id, skipEnc, paid, h) ==
  [recipient |-> r.args.recipient, box |-> r.args.box, body |-> r.args.body, id |-> id,
   encrypted |-> ~skipEnc, payment |-> paid, host |-> h]

\* sendMessage after assertInitialized: the argument validation.
sendMessage(c) ==
  /\ calls[c].pc = "sm_validate"
  /\ LET r == calls[c]
     IN Set(c, IF ~ArgsValid(r.args) THEN Rejected(r, "validation")
               ELSE [r EXCEPT !.pc = "sm_send"])
  /\ UNCHANGED <<host, networkPreset, initialized, myIdentityKey, socket, joinedRooms, sockVars, selfAd>>

\* sendMessage with checkPermissions, as the fallback of sendLiveMessage runs
\* it: getMessageBoxQuote, then createMessagePayment when a fee is due; any
\* failure rejects.  The quote and the payment are classified four ways here
\* and spelled out in CheckPermissions below.
QuoteOutcomes == {"blocked", "error", "free", "paid"}

PermissionCheck(r, q) ==
  IF ~r.sm.perm THEN r
  ELSE IF q \in {"blocked", "error"} THEN Rejected([r EXCEPT !.nQuery = @ + 1], "permission")
  ELSE [r EXCEPT !.nQuery = @ + 1, !.payment = (q = "paid")]

\* Variant: createHmac is not called when the caller supplied a messageId.
DeriveIdWhenMissing(r, ok) ==
  IF ~ok /\ r.sm.id = Null THEN Rejected(r, "hmac")
  ELSE [r EXCEPT !.smId = IF r.sm.id # Null THEN r.sm.id
                          ELSE DerivedId(SendHmacArgs(r.args.body, r.args.recipient))]

\* sendMessage: createHmac; the identifier is message.messageId ?? derived.
DeriveId(r, ok) ==
  IF ~ok THEN Rejected(r, "hmac")
  ELSE [r EXCEPT !.smId = IF r.sm.id # Null THEN r.sm.id
                          ELSE DerivedId(SendHmacArgs(r.args.body, r.args.recipient))]

\* sendMessage: overrideHost ?? resolveHostForRecipient(recipient), then
\* POST <host>/sendMessage and the server's answer.
HttpAnswers == {"success", "http_error", "status_error"}

PostMessage(r, answer) ==
  LET routed == IF r.sm.host = Null
                THEN [r EXCEPT !.sm.host = host, !.nQuery = @ + 1]
                ELSE r
      sent == [routed EXCEPT !.nHttp = @ + 1,
                             !.http = Message(routed, routed.smId, routed.sm.skipEnc,
                                              routed.payment, routed.sm.host)]
  IN IF answer = "success" THEN Resolved(sent, "http") ELSE Rejected(sent, "http")

\* sendMessage from the permission check to the server's answer.  These
\* steps touch no state another call or a socket event reads or writes.
SendOutcome(r, q, ok, answer) ==
  LET checked == PermissionCheck(r, q)
      derived == IF checked.pc = "done" THEN checked
                 ELSE DeriveId([checked EXCEPT !.hmacFail = ~ok], ok)
  IN IF derived.pc = "done" THEN derived ELSE PostMessage(derived, answer)

\* ---- sendMessage with the quote, the payment and the response spelled out
\* Fees a quote can name: recipientFee -1 blocks the sender.
RecipientFees == {-2, -1, 0, 1}
DeliveryFees == {0, 2}

\* What GET <host>/permissions/quote yields: a non-2xx status, a body with
\* status 'error', or a quote, with or without the x-bsv-auth-identity-key
\* header.
QuoteAnswers ==
  [kind : {"http_error", "status_error"}, recipientFee : {0}, deliveryFee : {0}, agentKey : {FALSE}]
  \cup [kind : {"ok"}, recipientFee : RecipientFees, deliveryFee : DeliveryFees, agentKey : BOOLEAN]

\* getMessageBoxQuote: TRUE when it returns the quote, FALSE when it throws
getMessageBoxQuote(answer) == answer.kind = "ok" /\ answer.agentKey

\* Where createMessagePayment can fail: the wallet's getPublicKey for the
\* delivery agent, the derived key of the recipient, createAction throwing,
\* createAction returning no tx.
WalletOutcomes == {"ok", "delivery_key", "recipient_key", "create_action", "no_tx"}

\* The failure createMessagePayment meets for this quote, "none" when it
\* meets none: a step that is not run cannot fail.
PaymentFailure(quote, wallet) ==
  IF quote.recipientFee <= 0 /\ quote.deliveryFee <= 0 THEN "no_payment_required"
  ELSE IF wallet = "delivery_key" /\ quote.deliveryFee > 0 THEN wallet
  ELSE IF wallet = "recipient_key" /\ quote.recipientFee > 0 THEN wallet
  ELSE IF wallet \in {"create_action", "no_tx"} THEN wallet
  ELSE "none"

\* Variant: the recipient output carries the sum of both fees.
createActionOutputsSummed(quote) ==
  (IF quote.deliveryFee > 0 THEN <<[payee |-> "agent", satoshis |-> quote.deliveryFee]>> ELSE <<>>)
  \o (IF quote.recipientFee > 0
      THEN <<[payee |-> "recipient", satoshis |-> quote.recipientFee + quote.deliveryFee]>> ELSE <<>>)

\* createMessagePayment: the outputs handed to createAction, the delivery
\* fee first.
createActionOutputs(quote) ==
  (IF quote.deliveryFee > 0 THEN <<[payee |-> "agent", satoshis |-> quote.deliveryFee]>> ELSE <<>>)
  \o (IF quote.recipientFee > 0 THEN <<[payee |-> "recipient", satoshis |-> quote.recipientFee]>> ELSE <<>>)

\* Variant: a quote without the delivery agent's key is used as it is.
NeedsNoAgentKey(r, answer, wallet) ==
  IF ~r.sm.perm THEN r
  ELSE LET asked == [r EXCEPT !.nQuery = @ + 1, !.quote = answer]
       IN IF answer.kind # "ok" \/ answer.recipientFee = -1 THEN Rejected(asked, "permission")
          ELSE IF (answer.recipientFee > 0 \/ answer.deliveryFee > 0)
                  /\ answer.recipientFee + answer.deliveryFee > 0
               THEN [asked EXCEPT !.payment = TRUE, !.paymentData = createActionOutputs(answer)]
               ELSE asked

\* sendMessage with checkPermissions === true, from getMessageBoxQuote to
\* paymentData; every failure is rethrown as 'Permission check failed'.
CheckPermissions(r, answer, wallet) ==
  IF ~r.sm.perm THEN r
  ELSE LET asked == [r EXCEPT !.nQuery = @ + 1, !.quote = answer]
       IN IF ~getMessageBoxQuote(answer) THEN Rejected(asked, "permission")
          ELSE IF answer.recipientFee = -1 THEN Rejected(asked, "permission")
          ELSE IF (answer.recipientFee > 0 \/ answer.deliveryFee > 0)
                  /\ answer.recipientFee + answer.deliveryFee > 0
               THEN LET failure == PaymentFailure(answer, wallet)
                    IN IF failure # "none"
                       THEN Rejected([asked EXCEPT !.walletFail = failure], "permission")
                       ELSE [asked EXCEPT !.payment = TRUE, !.paymentData = createActionOutputs(answer)]
               ELSE asked

\* What POST <host>/sendMessage yields: fetch throwing, a body that is not
\* JSON, a non-2xx status, a body whose status is not 'success', or success.
\* The server may or may not put a description in the body.
StatusText == "Internal Server Error"
Descriptions == {"", "box full"}
SendResponses ==
  [kind : {"network", "not_json", "success"}, description : {""}]
  \cup [kind : {"http_error", "status_error"}, description : Descriptions]

\* The message of the error sendMessage raises for a response, in parts.
ErrorParts(response) ==
  <<"Failed to send message: ">> \o
    (CASE response.kind = "network" -> <<"network error">>
       [] response.kind = "not_json" -> <<"Unexpected token">>
       [] response.kind = "http_error" -> <<"Message sending failed: HTTP ", "500", " - ", StatusText>>
       [] response.kind = "status_error" ->
            <<IF response.description # "" THEN response.description ELSE "Unknown error from server.">>)

\* sendMessage: overrideHost ?? resolveHostForRecipient(recipient), then
\* POST <host>/sendMessage and the handling of the response.
PostAndHandle(r, response) ==
  LET routed == IF r.sm.host = Null
                THEN [r EXCEPT !.sm.host = host, !.nQuery = @ + 1]
                ELSE r
      sent == [routed EXCEPT !.nHttp = @ + 1, !.response = response,
                             !.http = Message(routed, routed.smId, routed.sm.skipEnc,
                                              routed.payment, routed.sm.host)]
  IN IF response.kind = "success" THEN Resolved(sent, "http")
     ELSE Rejected([sent EXCEPT !.errParts = ErrorParts(response)], "http")

\* sendMessage from the permission check to its return or throw.  These
\* steps touch no state another call or a socket event reads or writes.
SendWithFees(r, answer, wallet, ok, response) ==
  LET checked == CheckPermissions(r, answer, wallet)
      derived == IF checked.pc = "done" THEN checked
                 ELSE DeriveId([checked EXCEPT !.hmacFail = ~ok], ok)
  IN IF derived.pc = "done" THEN derived ELSE PostAndHandle(derived, response)

DurableSend(c) ==
  /\ calls[c].pc = "sm_send"
  /\ NoMicro
  /\ \E answer \in QuoteAnswers, wallet \in WalletOutcomes, ok \in BOOLEAN, response \in SendResponses :
       Set(c, SendWithFees(calls[c], answer, wallet, ok, response))
  /\ UNCHANGED <<host, networkPreset, initialized, myIdentityKey, socket, joinedRooms, sockVars, selfAd>>

\* -------------------------------------------------------- sendLiveMessage
\* sendLiveMessage after assertInitialized: validation, then joinRoom.
sendLiveMessage(c) ==
  /\ calls[c].pc = "sl_validate"
  /\ LET r == calls[c]
     IN Set(c, IF ~ArgsValid(r.args) THEN Rejected(r, "validation")
               ELSE [r EXCEPT !.pc = "jr_start"])
  /\ UNCHANGED <<host, networkPreset, initialized, myIdentityKey, socket, joinedRooms, sockVars, selfAd>>

\* The message handed to sendMessage when the socket is not connected.
DirectMessage(r) == [id |-> Null, skipEnc |-> FALSE, perm |-> FALSE, host |-> Null]

\* Variant: the fallback forwards recipient, messageBox and body only.
fallbackMessageBare(r) == [id |-> Null, skipEnc |-> FALSE, perm |-> FALSE, host |-> Null]

\* The message handed to sendMessage after a failed or missing acknowledgment.
fallbackMessage(r) == [id |-> r.finalId, skipEnc |-> r.args.skipEnc, perm |-> r.args.perm, host |-> Null]

\* Variant: only the absence of the handle is tested.
HandleAbsent == socket = 0

\* this.socket == null || !this.socket.connected
NotConnected == socket = 0 \/ ~connected[socket]

\* sendLiveMessage after joinRoom: HTTP when the socket is absent or not
\* connected, else the push path.
LiveOrFallback(c) ==
  /\ calls[c].pc = "sl_live"
  /\ LET r == [calls[c] EXCEPT !.live = IF socket # 0 /\ connected[socket] THEN "yes" ELSE "no"]
     IN Set(c, IF NotConnected
               THEN [r EXCEPT !.pc = "fb_send", !.path = "direct", !.sm = DirectMessage(r)]
               ELSE [r EXCEPT !.pc = "sl_hmac", !.path = "push"])
  /\ UNCHANGED <<host, networkPreset, initialized, myIdentityKey, socket, joinedRooms, sockVars, selfAd>>

\* The promise body of sendLiveMessage: register the acknowledgment listener
\* and emit 'sendMessage' on the handle (if any), start the 10 s timer.
PushSend(r) ==
  IF socket # 0
  THEN [r EXCEPT !.pc = "sl_wait", !.timer = TRUE, !.listening = TRUE, !.ackSock = socket,
                 !.ackOwed = TRUE, !.nPush = @ + 1,
                 !.push = Message(r, r.finalId, r.args.skipEnc, FALSE, Null)]
  ELSE [r EXCEPT !.pc = "sl_wait", !.timer = TRUE]

\* sendLiveMessage: createHmac; finalMessageId = messageId ?? derived.
\* Without encryption the promise body runs in the same segment.
LiveDeriveId(c) ==
  /\ calls[c].pc = "sl_hmac"
  /\ NoMicro
  /\ LET withId == [calls[c] EXCEPT !.finalId =
                       IF calls[c].args.mid # Null THEN calls[c].args.mid
                       ELSE DerivedId(LiveHmacArgs(calls[c].args.body, calls[c].args.recipient))]
     IN \E ok \in BOOLEAN :
          Set(c, IF ~ok THEN Rejected([calls[c] EXCEPT !.hmacFail = TRUE], "hmac")
                 ELSE IF calls[c].args.skipEnc THEN PushSend(withId)
                 ELSE [withId EXCEPT !.pc = "sl_encrypt"])
  /\ UNCHANGED <<host, networkPreset, initialized, myIdentityKey, socket, joinedRooms, sockVars, selfAd>>

\* sendLiveMessage: the body is encrypted, then the promise body runs.
LiveEncrypt(c) ==
  /\ calls[c].pc = "sl_encrypt"
  /\ NoMicro
  /\ Set(c, PushSend(calls[c]))
  /\ UNCHANGED <<host, networkPreset, initialized, myIdentityKey, socket, joinedRooms, sockVars, selfAd>>

\* socketAny.off(ackEvent, ackHandler) acts on the handle the client holds now.
Detach(r) ==
  [r EXCEPT !.listening = IF socket # 0 /\ socket = r.ackSock THEN FALSE ELSE @]

\* The resolution logic took the fallback branch.
Fallback(r) ==
  [r EXCEPT !.pc = "fb_send", !.path = "fallback", !.sm = fallbackMessage(r)]

\* ackHandler(response)
ackHandler(r, response) ==
  IF r.handled THEN r
  ELSE LET d == Detach([r EXCEPT !.handled = TRUE, !.nResolve = @ + 1])
       IN IF response = Null \/ response # "success"
          THEN Fallback(d)
          ELSE Resolved(d, "push")

\* Variant: the timer callback does not test the handled flag.
timeoutHandlerUnguarded(r) ==
  Fallback(Detach([r EXCEPT !.handled = TRUE, !.nResolve = @ + 1]))

\* Variant: the timer callback does nothing.
timeoutHandlerIdle(r) == r

\* The 10 s timer callback of sendLiveMessage.
timeoutHandler(r) ==
  IF ~r.handled
  THEN Fallback(Detach([r EXCEPT !.handled = TRUE, !.nResolve = @ + 1]))
  ELSE r

AckResponses == {"success", "error", Null}

\* The server acknowledges the message of call c0 on event
\* 'sendMessageAck-<room>': every handler registered for that event on that
\* socket runs.
OnAck(c0, response) ==
  /\ calls[c0].ackOwed
  /\ connected[calls[c0].ackSock]
  /\ NoMicro
  /\ LET s == calls[c0].ackSock
         room == RoomId(calls[c0].args.recipient, calls[c0].args.box)
         hears(c) == /\ calls[c].listening
                     /\ calls[c].ackSock = s
                     /\ RoomId(calls[c].args.recipient, calls[c].args.box) = room
         acked == [calls EXCEPT ![c0].ackOwed = FALSE]
     IN calls' = [c \in Calls |-> IF hears(c) THEN ackHandler(acked[c], response) ELSE acked[c]]
  /\ UNCHANGED <<host, networkPreset, initialized, myIdentityKey, socket, joinedRooms, sockVars, selfAd>>

AckTimeout(c) ==
  /\ calls[c].timer
  /\ NoMicro
  /\ Set(c, timeoutHandler([calls[c] EXCEPT !.timer = FALSE]))
  /\ UNCHANGED <<host, networkPreset, initialized, myIdentityKey, socket, joinedRooms, sockVars, selfAd>>

\* The fallback of sendLiveMessage: resolveHostForRecipient(recipient), then
\* sendMessage(message, host) to its end.
FallbackSend(c) ==
  /\ calls[c].pc = "fb_send"
  /\ NoMicro
  /\ LET r == [calls[c] EXCEPT !.sm.host = host, !.nQuery = @ + 1, !.nDurable = @ + 1]
     IN IF ~ArgsValid(r.args)
        THEN Set(c, Rejected(r, "validation"))
        ELSE \E q \in QuoteOutcomes, ok \in BOOLEAN, answer \in HttpAnswers :
               Set(c, SendOutcome(r, q, ok, answer))
  /\ UNCHANGED <<host, networkPreset, initialized, myIdentityKey, socket, joinedRooms, sockVars, selfAd>>

\* ------------------------------------------------ listMessages (pure part)
ErrorSentinel == "[Error: Failed to decrypt or parse message]"

\* The messages a server stores, by id: a plain text body, an encrypted
\* envelope {"encryptedMessage": ...}, and a wrapper {"message": <encrypted
\* envelope>, "payment": {tx, outputs}}; `text` is the plaintext.
MessageIds == {"a", "b", "c"}
Stored(id) ==
  CASE id = "a" -> [messageId |-> "a", sender |-> Bob, created_at |-> 1,
                    body |-> [form |-> "text", text |-> "A"]]
    [] id = "b" -> [messageId |-> "b", sender |-> Bob, created_at |-> 2,
                    body |-> [form |-> "encrypted", text |-> "B"]]
    [] id = "c" -> [messageId |-> "c", sender |-> Bob, created_at |-> 3,
                    body |-> [form |-> "paid", text |-> "C"]]

\* The copy of a stored message that host h returns.  PeerMessage declares
\* created_at and updated_at; a server may or may not add `timestamp`.
Copy(id, h, stamped) ==
  [messageId |-> id, sender |-> Stored(id).sender, created_at |-> Stored(id).created_at,
   body |-> Stored(id).body, via |-> h, hasTimestamp |-> stamped,
   timestamp |-> IF stamped THEN Stored(id).created_at ELSE 0]

\* Sequences of distinct ids, at most n long.
IdLists(n) ==
  { l \in UNION { [1..k -> MessageIds] : k \in 0..n } :
      \A i, j \in 1..Len(l) : i # j => l[i] # l[j] }

\* What a host does with POST /listMessages: a network error, a non-2xx
\* status, a body with status 'error', or the messages.
HostFailures == {"network", "HTTP 500", "server error"}
HostAnswers == [ok : {FALSE}, error : HostFailures, ids : {<<>>}]
               \cup [ok : {TRUE}, error : {""}, ids : IdLists(MaxBatch)]

\* Array.from(new Set(seq)): first occurrences, in order.
RECURSIVE Unique(_)
Unique(seq) ==
  IF seq = <<>> THEN <<>>
  ELSE LET front == Unique(SubSeq(seq, 1, Len(seq) - 1))
           last == seq[Len(seq)]
       IN IF \E i \in 1..Len(front) : front[i] = last THEN front ELSE Append(front, last)

\* hosts = host != null ? [host] : [this.host, ...advertised hosts], unique
Advertised == {<<>>, <<OtherHost>>, <<DefaultHost, OtherHost>>}
HostList(hostArg, ads) == IF hostArg # Null THEN <<hostArg>> ELSE Unique(<<host>> \o ads)

\* queryAdvertisements(identityKey, host, originator) for the caller's own
\* identity, of which the directory holds the advertisements ads: a host
\* that is given and not blank goes into the query, and the lookup service
\* answers with the advertisements anointed at that host.
AdvertisedAt(ads, hostFilter) ==
  IF hostFilter # Null /\ Trim(hostFilter) # ""
  THEN SelectSeq(ads, LAMBDA h : h = hostFilter)
  ELSE ads

\* listMessages: queryAdvertisements(await this.getIdentityKey(originator), originator)
ListHosts(a, ads) == HostList(a.host, AdvertisedAt(ads, a.originator))

\* acknowledgeMessage: queryAdvertisements(identityKey, undefined, originator)
AckHosts(a, ads) == HostList(a.host, AdvertisedAt(ads, Null))

\* The hosts a listMessages call and an acknowledgeMessage call with the same
\* arguments address while the directory holds the advertisements ads.
HostSets(c) ==
  /\ calls[c].pc = "hs_query"
  /\ NoMicro
  /\ \E ads \in Advertised :
       Set(c, Resolved([calls[c] EXCEPT !.dir = ads, !.nQuery = @ + 1,
                                        !.hosts = ListHosts(calls[c].args, ads),
                                        !.ackHosts = AckHosts(calls[c].args, ads)], "hosts"))
  /\ UNCHANGED <<host, networkPreset, initialized, myIdentityKey, socket, joinedRooms, sockVars, selfAd>>

\* fetchFromHost under Promise.allSettled
fetchFromHost(h, answer, stamped) ==
  IF answer.ok
  THEN [status |-> "fulfilled", value |-> [i \in 1..Len(answer.ids) |-> Copy(answer.ids[i], h, stamped)],
        reason |-> ""]
  ELSE [status |-> "rejected", value |-> <<>>, reason |-> answer.error]

\* messagesByHost and errors, in host order
RECURSIVE Fulfilled(_)
Fulfilled(settled) ==
  IF settled = <<>> THEN <<>>
  ELSE LET rest == Fulfilled(Tail(settled))
       IN IF Head(settled).status = "fulfilled" THEN <<Head(settled).value>> \o rest ELSE rest

RECURSIVE Reasons(_)
Reasons(settled) ==
  IF settled = <<>> THEN <<>>
  ELSE LET rest == Reasons(Tail(settled))
       IN IF Head(settled).status = "rejected" THEN <<Head(settled).reason>> \o rest ELSE rest

\* Variant: a later copy of an id replaces the earlier one.
RECURSIVE DedupLastWins(_, _)
DedupLastWins(map, list) ==
  IF list = <<>> THEN map
  ELSE LET m == Head(list)
       IN DedupLastWins(
            IF \E i \in 1..Len(map) : map[i].messageId = m.messageId
            THEN [i \in 1..Len(map) |-> IF map[i].messageId = m.messageId THEN m ELSE map[i]]
            ELSE Append(map, m),
            Tail(list))

\* for (const m of messageList) if (!dedupMap.has(m.messageId)) dedupMap.set(...)
\* The map is the sequence of its values in insertion order.
RECURSIVE DedupInto(_, _)
DedupInto(map, list) ==
  IF list = <<>> THEN map
  ELSE LET m == Head(list)
       IN DedupInto(
            IF \E i \in 1..Len(map) : map[i].messageId = m.messageId THEN map ELSE Append(map, m),
            Tail(list))

RECURSIVE dedupMap(_, _)
dedupMap(map, messagesByHost) ==
  IF messagesByHost = <<>> THEN map
  ELSE dedupMap(DedupInto(map, Head(messagesByHost)), Tail(messagesByHost))

\* tryParse, the payment wrapper and the decryption of one message: the body
\* listMessages gives it.  pay and dec are what walletClient.internalizeAction
\* and walletClient.decrypt do for it.
InternalizeOutcomes == {"accepted", "refused", "throws"}
DecryptOutcomes == {"ok", "throws"}

\* messageContent: the wrapped message of a payment wrapper, else the body
Unwrapped(body) == IF body.form = "paid" THEN [form |-> "encrypted", text |-> body.text] ELSE body

\* Variant: a failed internalization is not caught where it happens, so the
\* enclosing catch replaces the body.
processMessageUncaughtPayment(m, pay, dec) ==
  IF m.body.form = "paid" /\ pay = "throws" THEN [form |-> "text", text |-> ErrorSentinel]
  ELSE IF Unwrapped(m.body).form = "encrypted"
       THEN [form |-> "text", text |-> IF dec = "ok" THEN m.body.text ELSE ErrorSentinel]
       ELSE Unwrapped(m.body)

\* Variant: the catch block leaves the body as it was received.
processMessageKeepsRaw(m, pay, dec) ==
  IF Unwrapped(m.body).form = "encrypted"
  THEN IF dec = "ok" THEN [form |-> "text", text |-> m.body.text] ELSE m.body
  ELSE Unwrapped(m.body)

processMessage(m, pay, dec) ==
  LET messageContent == Unwrapped(m.body)
  IN IF messageContent.form = "encrypted"
     THEN IF dec = "ok" THEN [form |-> "text", text |-> messageContent.text]
          ELSE [form |-> "text", text |-> ErrorSentinel]
     ELSE messageContent

\* Number(message.timestamp ?? 0)
SortKey(m) == IF m.hasTimestamp THEN m.timestamp ELSE 0

\* messages.sort((a, b) => key(b) - key(a)): a stable sort, larger keys first
RECURSIVE SortNewestFirst(_)
SortNewestFirst(seq) ==
  IF seq = <<>> THEN <<>>
  ELSE LET front == SortNewestFirst(SubSeq(seq, 1, Len(seq) - 1))
           m == seq[Len(seq)]
           n == Cardinality({ i \in 1..Len(front) : SortKey(front[i]) >= SortKey(m) })
       IN SubSeq(front, 1, n) \o <<m>> \o SubSeq(front, n + 1, Len(front))

\* Variant: the call fails as soon as one host failed.
AnyHostFailed(settled) == Len(Reasons(settled)) > 0

\* messagesByHost.length === 0
AllHostsFailed(settled) == Len(Fulfilled(settled)) = 0

PaidIds(messages) == { messages[i].messageId : i \in { j \in 1..Len(messages) : messages[j].body.form = "paid" } }
EncryptedIds(messages) ==
  { messages[i].messageId : i \in { j \in 1..Len(messages) : Unwrapped(messages[j].body).form = "encrypted" } }

\* ------------------------------------------------------------ listMessages
\* listMessages after assertInitialized: validation of messageBox.
listMessages(c) ==
  /\ calls[c].pc = "lm_start"
  /\ Set(c, IF Trim(calls[c].args.box) = "" THEN Rejected(calls[c], "validation")
            ELSE [calls[c] EXCEPT !.pc = "lm_fetch"])
  /\ UNCHANGED <<host, networkPreset, initialized, myIdentityKey, socket, joinedRooms, sockVars, selfAd>>

\* listMessages from the host lookup to its return.  The awaited requests and
\* wallet calls touch no state another call or a socket event reads or writes.
ListSettle(c) ==
  /\ calls[c].pc = "lm_fetch"
  /\ NoMicro
  /\ \E ads \in (IF calls[c].args.host = Null THEN Advertised ELSE {<<>>}), stamped \in BOOLEAN :
       LET hosts == ListHosts(calls[c].args, ads)
       IN \E answers \in [1..Len(hosts) -> HostAnswers] :
            LET settled == [i \in 1..Len(hosts) |-> fetchFromHost(hosts[i], answers[i], stamped)]
                merged == dedupMap(<<>>, Fulfilled(settled))
                r == [calls[c] EXCEPT !.hosts = hosts, !.answers = answers, !.settled = settled,
                                      !.nQuery = IF calls[c].args.host = Null THEN @ + 1 ELSE @]
            IN IF AllHostsFailed(settled)
               THEN Set(c, Rejected([r EXCEPT !.err = [message |-> "Failed to retrieve messages from any host",
                                                       hostErrors |-> <<>>]], "hosts"))
               ELSE \E pay \in [PaidIds(merged) -> InternalizeOutcomes],
                       dec \in [EncryptedIds(merged) -> DecryptOutcomes] :
                      LET outcome(f, m) == IF m.messageId \in DOMAIN f THEN f[m.messageId] ELSE "none"
                          messages == [i \in 1..Len(merged) |->
                                         [merged[i] EXCEPT !.body = processMessage(merged[i], outcome(pay, merged[i]),
                                                                                 outcome(dec, merged[i]))]]
                      IN Set(c, Resolved([r EXCEPT !.result = SortNewestFirst(messages),
                                                   !.payFailed = { id \in DOMAIN pay : pay[id] = "throws" },
                                                   !.undecryptable = { id \in DOMAIN dec : dec[id] = "throws" }],
                                         "list"))
  /\ UNCHANGED <<host, networkPreset, initialized, myIdentityKey, socket, joinedRooms, sockVars, selfAd>>

\* ------------------------------------------------------ acknowledgeMessage
AckAnswers == [ok : {FALSE}, error : HostFailures] \cup [ok : {TRUE}, error : {""}]

\* ackFromHost under Promise.allSettled: a failure is caught and yields null.
ackFromHost(answer) ==
  [status |-> "fulfilled", value |-> IF answer.ok THEN "success" ELSE Null, reason |-> ""]

\* Variant: only the first host's answer counts.
FirstHostSuccess(settled) == settled[1].value

\* successes.find(s => s.value != null)?.value
FirstSuccess(settled) ==
  LET found == { i \in 1..Len(settled) : settled[i].status = "fulfilled" /\ settled[i].value # Null }
  IN IF found = {} THEN Null
     ELSE settled[CHOOSE i \in found : \A j \in found : i <= j].value

\* errs.map(e => String(e)).join('; ')
RECURSIVE JoinErrors(_)
JoinErrors(errs) ==
  IF errs = <<>> THEN ""
  ELSE IF Len(errs) = 1 THEN errs[1]
  ELSE errs[1] \o "; " \o JoinErrors(Tail(errs))

\* acknowledgeMessage after assertInitialized: validation of messageIds.
acknowledgeMessage(c) ==
  /\ calls[c].pc = "am_start"
  /\ Set(c, IF Len(calls[c].args.messageIds) = 0 THEN Rejected(calls[c], "validation")
            ELSE [calls[c] EXCEPT !.pc = "am_fetch"])
  /\ UNCHANGED <<host, networkPreset, initialized, myIdentityKey, socket, joinedRooms, sockVars, selfAd>>

\* acknowledgeMessage from the host lookup to its return.
AckSettle(c) ==
  /\ calls[c].pc = "am_fetch"
  /\ NoMicro
  /\ \E ads \in (IF calls[c].args.host = Null THEN Advertised ELSE {<<>>}) :
       LET hosts == AckHosts(calls[c].args, ads)
       IN \E answers \in [1..Len(hosts) -> AckAnswers] :
            LET settled == [i \in 1..Len(hosts) |-> ackFromHost(answers[i])]
                firstSuccess == FirstSuccess(settled)
                errs == Reasons(settled)
                r == [calls[c] EXCEPT !.hosts = hosts, !.answers = answers, !.settled = settled,
                                      !.nQuery = IF calls[c].args.host = Null THEN @ + 1 ELSE @]
            IN IF firstSuccess # Null
               THEN Set(c, Resolved([r EXCEPT !.value = firstSuccess], "ack"))
               ELSE Set(c, Rejected([r EXCEPT !.err =
                             [message |-> "Failed to acknowledge messages on all hosts: " \o JoinErrors(errs),
                              hostErrors |-> errs]], "hosts"))
  /\ UNCHANGED <<host, networkPreset, initialized, myIdentityKey, socket, joinedRooms, sockVars, selfAd>>

\* ------------------------------------------------- live message listener
\* The body the 'sendMessage-<roomId>' handler gives a pushed message: the
\* plaintext of an encrypted body, the sentinel when decrypting fails, and the
\* body as text otherwise.
liveBody(m, dec) ==
  IF m.body.form = "encrypted"
  THEN [form |-> "text", text |-> IF dec = "ok" THEN m.body.text ELSE ErrorSentinel]
  ELSE m.body

\* The server pushes message id to the room of listener c.  An encrypted body
\* waits for walletClient.decrypt; any other body reaches onMessage at once.
OnLiveMessage(c, id) ==
  /\ calls[c].op = "listen"
  /\ calls[c].pc = "done"
  /\ calls[c].outcome = "resolved"
  /\ calls[c].listenSock # 0
  /\ connected[calls[c].listenSock]
  /\ Len(calls[c].received) < MaxLive
  /\ NoMicro
  /\ LET r == calls[c]
         n == Len(r.received) + 1
         m == Copy(id, host, FALSE)
     IN Set(c, IF m.body.form = "encrypted"
               THEN [r EXCEPT !.received = Append(@, id), !.decrypting = Append(@, [n |-> n, m |-> m])]
               ELSE [r EXCEPT !.received = Append(@, id),
                              !.delivered = Append(@, [n |-> n, m |-> [m EXCEPT !.body = liveBody(m, "none")]])])
  /\ UNCHANGED <<host, networkPreset, initialized, myIdentityKey, socket, joinedRooms, sockVars, selfAd>>

\* walletClient.decrypt settles for the i-th waiting message of listener c;
\* the handler sets the body and calls onMessage.
LiveDecrypted(c, i, dec) ==
  /\ calls[c].op = "listen"
  /\ i \in 1..Len(calls[c].decrypting)
  /\ NoMicro
  /\ LET r == calls[c]
         w == r.decrypting[i]
     IN Set(c, [r EXCEPT !.decrypting = SubSeq(@, 1, i - 1) \o SubSeq(@, i + 1, Len(@)),
                         !.delivered = Append(@, [n |-> w.n, m |-> [w.m EXCEPT !.body = liveBody(w.m, dec)]]),
                         !.undecryptable = IF dec = "throws" THEN @ \cup {w.n} ELSE @])
  /\ UNCHANGED <<host, networkPreset, initialized, myIdentityKey, socket, joinedRooms, sockVars, selfAd>>

\* ------------------------------------------------------------ PeerPayClient
\* this.acknowledgeMessage({ messageIds }) as acceptPayment and rejectPayment
\* call it, from the host lookup to its return (TRUE) or throw (FALSE).
Acknowledged(ads, answers) ==
  FirstSuccess([i \in 1..Len(HostList(Null, ads)) |-> ackFromHost(answers[i])]) # Null

\* Where the caller of acceptPayment continues
AfterAccept(r) ==
  IF r.apRet = "idle" THEN Resolved(r, "accept") ELSE [r EXCEPT !.pc = r.apRet]

\* acceptPayment: walletClient.internalizeAction; its failure is caught and
\* the method returns 'Unable to receive payment!'.
AcceptInternalize(c) ==
  /\ calls[c].pc = "ap_internalize"
  /\ NoMicro
  /\ \E ok \in BOOLEAN :
       Set(c, IF ok THEN [calls[c] EXCEPT !.pc = "ap_ack", !.accepted = "yes"]
              ELSE AfterAccept([calls[c] EXCEPT !.accepted = "no", !.value = "Unable to receive payment!"]))
  /\ UNCHANGED <<host, networkPreset, initialized, myIdentityKey, socket, joinedRooms, sockVars, selfAd>>

\* acceptPayment: acknowledgeMessage after the internalization; its
\* failure is caught the same way.
AcceptAcknowledge(c) ==
  /\ calls[c].pc = "ap_ack"
  /\ NoMicro
  /\ \E ads \in Advertised :
       \E answers \in [1..Len(HostList(Null, ads)) -> AckAnswers] :
         LET r == [calls[c] EXCEPT !.nAck = @ + 1, !.nQuery = @ + 1]
         IN Set(c, AfterAccept(IF Acknowledged(ads, answers) THEN [r EXCEPT !.value = "accepted"]
                               ELSE [r EXCEPT !.value = "Unable to receive payment!"]))
  /\ UNCHANGED <<host, networkPreset, initialized, myIdentityKey, socket, joinedRooms, sockVars, selfAd>>

\* rejectPayment: the test of the amount left after the fee.
rejectPayment(c) ==
  /\ calls[c].pc = "rp_start"
  /\ Set(c, IF calls[c].args.amount - 1000 < 1000
            THEN [calls[c] EXCEPT !.pc = "rp_ack_only"]
            ELSE [calls[c] EXCEPT !.pc = "ap_internalize", !.apRet = "rp_refund"])
  /\ UNCHANGED <<host, networkPreset, initialized, myIdentityKey, socket, joinedRooms, sockVars, selfAd>>

\* rejectPayment, amount too small: acknowledgeMessage only; its failure is
\* rethrown unless the message names a 401.
RejectAcknowledgeOnly(c) ==
  /\ calls[c].pc = "rp_ack_only"
  /\ NoMicro
  /\ \E ads \in Advertised :
       \E answers \in [1..Len(HostList(Null, ads)) -> AckAnswers] :
         LET r == [calls[c] EXCEPT !.nAck = @ + 1, !.nQuery = @ + 1]
         IN Set(c, IF Acknowledged(ads, answers) THEN Resolved(r, "reject") ELSE Rejected(r, "ack"))
  /\ UNCHANGED <<host, networkPreset, initialized, myIdentityKey, socket, joinedRooms, sockVars, selfAd>>

\* rejectPayment after acceptPayment returned: sendPayment of amount - 1000
\* to the sender; its failure rejects the call.
RejectRefund(c) ==
  /\ calls[c].pc = "rp_refund"
  /\ NoMicro
  /\ \E sent \in BOOLEAN :
       Set(c, IF sent THEN [calls[c] EXCEPT !.pc = "rp_ack", !.nRefund = @ + 1,
                                            !.refund = calls[c].args.amount - 1000]
              ELSE Rejected(calls[c], "refund"))
  /\ UNCHANGED <<host, networkPreset, initialized, myIdentityKey, socket, joinedRooms, sockVars, selfAd>>

\* rejectPayment after the refund: acknowledgeMessage, failures logged.
RejectAcknowledge(c) ==
  /\ calls[c].pc = "rp_ack"
  /\ NoMicro
  /\ \E ads \in Advertised :
       \E answers \in [1..Len(HostList(Null, ads)) -> AckAnswers] :
         Set(c, Resolved([calls[c] EXCEPT !.nAck = @ + 1, !.nQuery = @ + 1,
                                          !.value = IF Acknowledged(ads, answers) THEN "acknowledged"
                                                    ELSE "not acknowledged"], "reject"))
  /\ UNCHANGED <<host, networkPreset, initialized, myIdentityKey, socket, joinedRooms, sockVars, selfAd>>

\* ------------------------------------------------- resolveHostForRecipient
\* The host option of the constructor: left out, a URL, or blanks only.
HostOptions == {Null, "https://other", "  "}

\* The networkPreset option of the constructor, left out or given
NetworkPresets == {Null, "local", "mainnet", "testnet"}

\* constructor: networkPreset = 'mainnet' when the option is left out
PresetOf(option) == IF option = Null THEN "mainnet" ELSE option

\* The value of the field this.networkPreset while the constructor computes
\* defaultHost: the field is assigned further down, so it is undefined.
PresetFieldAtDefault(preset) == Null

\* constructor: defaultHost = this.networkPreset === 'testnet' ? testnet : mainnet
defaultHost(presetField) == IF presetField = "testnet" THEN TestnetHost ELSE DefaultHost

\* constructor: this.host = host?.trim() ?? defaultHost
ConstructedHost(option, preset) ==
  IF option = Null THEN defaultHost(PresetFieldAtDefault(preset)) ELSE Trim(option)

\* One output of the lookup answer: an advertisement whose fields
\* [identityKey, host] decode, one with an empty host field, or one that is
\* not a PushDrop token.
LookupOutputs ==
  { [kind |-> "ad", identityKey |-> k, host |-> h] : k \in {Bob, "carol"}, h \in {"https://other", "https://third"} }
    \cup { [kind |-> "empty_host", identityKey |-> Bob, host |-> ""],
           [kind |-> "malformed", identityKey |-> Null, host |-> ""] }

\* What lookupResolver.query yields: an output list, another result type, or
\* a throw.
LookupAnswers ==
  { [type |-> "output-list", outputs |-> o] : o \in UNION { [1..k -> LookupOutputs] : k \in 0..MaxOutputs } }
    \cup { [type |-> "freeform", outputs |-> <<>>], [type |-> "throws", outputs |-> <<>>] }

\* queryAdvertisements: the advertisements that decode, in the order of the
\* answer; nothing when the query fails.
queryAdvertisements(answer) ==
  IF answer.type = "output-list" THEN SelectSeq(answer.outputs, LAMBDA output : output.kind = "ad") ELSE <<>>

resolveHostForRecipient(answer) ==
  LET advertisementTokens == queryAdvertisements(answer)
  IN IF Len(advertisementTokens) = 0 THEN host ELSE advertisementTokens[1].host

ResolveHost(c) ==
  /\ calls[c].pc = "rh_query"
  /\ NoMicro
  /\ \E answer \in LookupAnswers :
       Set(c, Resolved([calls[c] EXCEPT !.lookup = answer, !.nQuery = @ + 1,
                                        !.value = resolveHostForRecipient(answer)], "resolve"))
  /\ UNCHANGED <<host, networkPreset, initialized, myIdentityKey, socket, joinedRooms, sockVars, selfAd>>

RoomOps == {"initConn", "join", "listen", "leave", "disconnect"}
LiveOps == {"sendLive"}
SendOps == {"send"}

InitSteps ==
  \/ \E c \in Calls : InitQuery(c)
  \/ \E c \in Calls : InitAnoint(c)

SocketSteps ==
  \/ \E s \in Socks : OnConnect(s)
  \/ \E s \in Socks : SocketDisconnected(s)
  \/ \E s \in Socks : OnAuthenticationSuccess(s)
  \/ \E s \in Socks : OnAuthenticationFailed(s)

JoinSteps ==
  \/ \E c \in Calls : AuthTimer(c)
  \/ \E c \in Calls : joinRoom(c)
  \/ \E c \in Calls : JoinAfterConnect(c)
  \/ \E c \in Calls : JoinAdd(c)

RoomSteps ==
  \/ \E c \in Calls : initializeConnection(c)
  \/ \E c \in Calls : listenForLiveMessages(c)
  \/ \E c \in Calls : leaveRoom(c)
  \/ \E c \in Calls : disconnectWebSocket(c)

SendSteps ==
  \/ \E c \in Calls : sendMessage(c)
  \/ \E c \in Calls : DurableSend(c)

LiveSteps ==
  \/ \E c \in Calls : sendLiveMessage(c)
  \/ \E c \in Calls : LiveOrFallback(c)
  \/ \E c \in Calls : LiveDeriveId(c)
  \/ \E c \in Calls : LiveEncrypt(c)
  \/ \E c \in Calls, response \in AckResponses : OnAck(c, response)
  \/ \E c \in Calls : AckTimeout(c)
  \/ \E c \in Calls : FallbackSend(c)

ListSteps ==
  \/ \E c \in Calls : listMessages(c)
  \/ \E c \in Calls : ListSettle(c)

AckSteps ==
  \/ \E c \in Calls : acknowledgeMessage(c)
  \/ \E c \in Calls : AckSettle(c)

ListenerSteps ==
  \/ \E c \in Calls, id \in MessageIds : OnLiveMessage(c, id)
  \/ \E c \in Calls, i \in 1..MaxLive, dec \in DecryptOutcomes : LiveDecrypted(c, i, dec)

PaySteps ==
  \/ \E c \in Calls : AcceptInternalize(c)
  \/ \E c \in Calls : AcceptAcknowledge(c)
  \/ \E c \in Calls : rejectPayment(c)
  \/ \E c \in Calls : RejectAcknowledgeOnly(c)
  \/ \E c \in Calls : RejectRefund(c)
  \/ \E c \in Calls : RejectAcknowledge(c)

Invoke(ops) == \E c \in Calls, op \in ops : \E a \in OpArgs(op) : Start(c, op, a)

Next ==
  \/ Invoke(Ops)
  \/ InitSteps
  \/ SocketSteps
  \/ JoinSteps
  \/ RoomSteps
  \/ SendSteps
  \/ LiveSteps
  \/ ListSteps
  \/ AckSteps
  \/ ListenerSteps
  \/ PaySteps
  \/ \E c \in Calls : ResolveHost(c)
  \/ \E c \in Calls : HostSets(c)

Spec == Init /\ [][Next]_vars

\* Connection and room operations.
NextRoom ==
  \/ Invoke(RoomOps)
  \/ InitSteps
  \/ SocketSteps
  \/ JoinSteps
  \/ RoomSteps

SpecRoom == Init /\ [][NextRoom]_vars

\* The client after init() has completed and before any socket is opened.
Ready ==
  /\ initialized = TRUE
  /\ myIdentityKey = Me
  /\ socket = 0
  /\ joinedRooms = {}
  /\ nSock = 0
  /\ connected = [s \in Socks |-> FALSE]
  /\ closed = [s \in Socks |-> FALSE]
  /\ identitySent = [s \in Socks |-> FALSE]
  /\ authenticated = [s \in Socks |-> FALSE]
  /\ selfAd = TRUE
  /\ host = DefaultHost
  /\ networkPreset = "mainnet"
  /\ calls = [c \in Calls |-> IdleCall]

\* sendLiveMessage calls on an initialized client.
NextLive ==
  \/ Invoke(LiveOps)
  \/ SocketSteps
  \/ JoinSteps
  \/ LiveSteps

SpecLive == Ready /\ [][NextLive]_vars

\* sendMessage calls.
NextSend ==
  \/ Invoke(SendOps)
  \/ InitSteps
  \/ SendSteps

SpecSend == Init /\ [][NextSend]_vars

\* Receiving: listMessages and acknowledgeMessage calls of a client that has
\* a live listener on its inbox room.
ReceiveOps == {"list", "ack"}

Listening ==
  /\ initialized = TRUE
  /\ myIdentityKey = Me
  /\ socket = 1
  /\ joinedRooms = {RoomId(Me, InboxBox)}
  /\ nSock = 1
  /\ connected = [s \in Socks |-> s = 1]
  /\ closed = [s \in Socks |-> FALSE]
  /\ identitySent = [s \in Socks |-> s = 1]
  /\ authenticated = [s \in Socks |-> s = 1]
  /\ selfAd = TRUE
  /\ host = DefaultHost
  /\ networkPreset = "mainnet"
  /\ calls = [c \in Calls |->
                IF c = 1
                THEN Resolved([IdleCall EXCEPT !.op = "listen", !.args = BoxArgs, !.after = TRUE,
                                               !.initAtStart = TRUE,
                                               !.sm = [id |-> Null, skipEnc |-> FALSE, perm |-> FALSE, host |-> Null],
                                               !.waitSock = 1, !.icRet = "jr_check", !.nJoinEmit = 1,
                                               !.joinSock = 1, !.listenSock = 1], "listen")
                ELSE IdleCall]

NextReceive ==
  \/ Invoke(ReceiveOps)
  \/ ListSteps
  \/ AckSteps
  \/ ListenerSteps

SpecReceive == Listening /\ [][NextReceive]_vars

\* PeerPayClient: acceptPayment and rejectPayment calls on an initialized
\* client.
NextPay ==
  \/ Invoke(PayOps)
  \/ PaySteps

SpecPay == Ready /\ [][NextPay]_vars

\* resolveHostForRecipient calls on a client as constructed.
InitResolve ==
  /\ initialized = FALSE
  /\ myIdentityKey = Null
  /\ socket = 0
  /\ joinedRooms = {}
  /\ nSock = 0
  /\ connected = [s \in Socks |-> FALSE]
  /\ closed = [s \in Socks |-> FALSE]
  /\ identitySent = [s \in Socks |-> FALSE]
  /\ authenticated = [s \in Socks |-> FALSE]
  /\ selfAd \in BOOLEAN
  /\ \E option \in HostOptions, preset \in NetworkPresets :
       /\ host = ConstructedHost(option, PresetOf(preset))
       /\ networkPreset = PresetOf(preset)
  /\ calls = [c \in Calls |-> IdleCall]

NextResolve ==
  \/ Invoke({"resolve"})
  \/ \E c \in Calls : ResolveHost(c)

SpecResolve == InitResolve /\ [][NextResolve]_vars

\* Repeated listMessages calls with a host override on an initialized
\* client; no message is acknowledged in between.
NextRelist ==
  \/ \E c \in Calls, a \in { l \in ListArgs : l.host # Null } : Start(c, "list", a)
  \/ ListSteps

SpecRelist == Ready /\ [][NextRelist]_vars

\* One sendLiveMessage call on an initialized client, with the scheduling
\* the event loop gives: a continuation that is ready runs, a timer that was
\* started fires, an HTTP request or wallet call that was made completes.
\* Socket events (connect, disconnect, authentication, acknowledgment) may or
\* may not happen.
NextOneLive ==
  \/ \E a \in SendArgs : Start(1, "sendLive", a)
  \/ SocketSteps
  \/ JoinSteps
  \/ LiveSteps

Scheduling ==
  \A c \in Calls :
    /\ WF_vars(sendLiveMessage(c))
    /\ WF_vars(joinRoom(c))
    /\ WF_vars(AuthTimer(c))
    /\ WF_vars(JoinAfterConnect(c))
    /\ WF_vars(JoinAdd(c))
    /\ WF_vars(LiveOrFallback(c))
    /\ WF_vars(LiveDeriveId(c))
    /\ WF_vars(LiveEncrypt(c))
    /\ WF_vars(AckTimeout(c))
    /\ WF_vars(FallbackSend(c))

SpecLiveFair == Ready /\ [][NextOneLive]_vars /\ Scheduling

\* The hosts of listMessages and acknowledgeMessage, by arguments and
\* directory content, on an initialized client.
NextHosts ==
  \/ Invoke({"hosts"})
  \/ \E c \in Calls : HostSets(c)

SpecHosts == Ready /\ [][NextHosts]_vars

\* ------------------------------------------------------------------ claims
LiveCalls == {c \in Calls : calls[c].op = "sendLive"}

\* C1: the acknowledgment handler and the 10 s timer of a live send together
\* run the resolution logic at most once, and exactly once when the call has
\* left its wait: the call settles once, a call resolved by the push
\* acknowledgment issues no durable send, and no call issues two.
C1_ResolutionOnce ==
  \A c \in LiveCalls :
    LET r == calls[c]
    IN /\ r.nResolve <= 1
       /\ r.nSettle <= 1
       /\ r.nDurable <= 1
       /\ r.handled <=> (r.nResolve = 1)
       /\ r.pc = "sl_wait" => r.nResolve = 0 /\ r.timer
       /\ r.path = "fallback" => r.nResolve = 1
       /\ r.via = "push" => r.nResolve = 1 /\ r.nDurable = 0

\* A success acknowledgment resolved the call and its timer fired afterwards.
C1_AckThenTimer ==
  \E c \in LiveCalls :
    calls[c].via = "push" /\ ~calls[c].timer /\ ~calls[c].ackOwed /\ calls[c].nResolve = 1

C3_FailsOnlyAfterDurableSend ==
  \A c \in LiveCalls :
    LET r == calls[c]
    IN (r.outcome = "rejected" /\ ArgsValid(r.args) /\ ~(r.cause = "hmac" /\ r.nDurable = 0))
         => r.nDurable >= 1

C5_CallerIdEverywhere ==
  \A c \in LiveCalls :
    LET r == calls[c]
    IN r.args.mid # Null =>
         /\ r.nPush = 1 => r.push.id = r.args.mid /\ r.push.encrypted = ~r.args.skipEnc
         /\ r.nHttp = 1 => r.http.id = r.args.mid /\ r.http.encrypted = ~r.args.skipEnc

\* C6: initializeConnection completes successfully only if the channel the
\* client holds has been authenticated (authenticationSuccess observed on it).
C6_SuccessMeansAuthenticated ==
  \A c \in Calls :
    (calls[c].op = "initConn" /\ calls[c].outcome = "resolved") => calls[c].authAtReturn

\* initializeConnection failed on socket s (no authenticationSuccess in time).
InitFailedOn(s) == \E d \in Calls : calls[d].cause = "auth" /\ calls[d].waitSock = s

\* C7: while the client holds a channel on which initializeConnection failed
\* and which is not authenticated, no step emits 'joinRoom' or adds a room to
\* the membership set.
C7_FailedChannelUnused ==
  [][ (socket # 0 /\ InitFailedOn(socket) /\ ~authenticated[socket]) =>
        /\ joinedRooms' \subseteq joinedRooms
        /\ \A c \in Calls : calls'[c].nJoinEmit <= calls[c].nJoinEmit ]_vars

\* C8: two joinRoom calls for the same message box, the second invoked after
\* the first completed and no other operation in between, transmit exactly
\* one 'joinRoom' event and leave the room in the membership set.
C8_JoinTwiceEmitsOnce ==
  \A c1, c2 \in Calls :
    ( /\ c1 < c2
      /\ calls[c1].op = "join" /\ calls[c1].outcome = "resolved"
      /\ calls[c2].op = "join" /\ calls[c2].outcome = "resolved"
      /\ calls[c1].args.box = calls[c2].args.box
      /\ calls[c2].after
      /\ \A d \in Calls \ {c1, c2} : calls[d].op = "none" )
    => /\ calls[c1].nJoinEmit + calls[c2].nJoinEmit = 1
       /\ RoomId(myIdentityKey, calls[c1].args.box) \in joinedRooms

LeaveCalls == {c \in Calls : calls[c].op = "leave" /\ calls[c].pc = "done" /\ calls[c].cause # "init"}

\* C9 (as claimed): leaveRoom always emits 'leaveRoom' and leaves the room
\* out of the membership set, and does not raise.
C9_AlwaysRemovesAndEmits ==
  \A c \in LeaveCalls :
    /\ calls[c].outcome = "resolved"
    /\ calls[c].nLeaveEmit = 1
    /\ ~calls[c].memberAfterLeave

\* C9 (amended): leaveRoom on an initialized client does not raise; when the
\* client holds a channel handle, connected or not, it emits 'leaveRoom' once
\* and the room is not in the membership set afterwards; when the handle is
\* absent it emits nothing and leaves the membership set as it was.
C9_RemovesAndEmitsIfHandle ==
  \A c \in LeaveCalls :
    LET r == calls[c]
    IN /\ r.outcome = "resolved"
       /\ r.nSettle = 1
       /\ r.hadHandle => r.nLeaveEmit = 1 /\ ~r.memberAfterLeave
       /\ ~r.hadHandle => r.nLeaveEmit = 0 /\ r.memberAfterLeave = r.memberBeforeLeave

\* leaveRoom ran while the client held a handle that was not connected.
C9_LeftOnUnconnectedHandle ==
  \E c \in LeaveCalls :
    calls[c].hadHandle /\ ~calls[c].wasConnected /\ calls[c].nLeaveEmit = 1

\* C10: a send rejected for a blank recipient, messageBox or body has caused
\* no network activity: no directory query, no advertisement broadcast, no
\* room join, no push event and no HTTP request.
C10_RejectedBeforeNetwork ==
  \A c \in Calls :
    LET r == calls[c]
    IN (r.op \in {"send", "sendLive"} /\ r.cause = "validation") =>
         /\ r.nQuery = 0 /\ r.nBroadcast = 0
         /\ r.nJoinEmit = 0 /\ r.nPush = 0 /\ r.nHttp = 0
         /\ socket = 0 /\ joinedRooms = {}

\* C11: when createHmac fails during a send, the call rejects and posts no
\* HTTP /sendMessage request, with or without a caller-supplied messageId;
\* when it fails in sendLiveMessage's own derivation, no 'sendMessage' push
\* event is emitted and no fallback send is attempted either.
C11_HmacFailureIsFatal ==
  \A c \in LiveCalls :
    LET r == calls[c]
    IN r.hmacFail =>
         /\ r.pc = "done" /\ r.outcome = "rejected" /\ r.cause = "hmac"
         /\ r.nHttp = 0
         /\ r.nSettle = 1
         /\ r.path = "push" => r.nPush = 0 /\ r.nDurable = 0 /\ ~r.timer /\ ~r.listening

\* createHmac failed in sendLiveMessage's own derivation, and in the
\* sendMessage of a fallback, for calls with a caller-supplied messageId.
C11_HmacFailedWithCallerId ==
  /\ \E c \in LiveCalls :
       calls[c].hmacFail /\ calls[c].args.mid # Null /\ calls[c].path = "push"
  /\ \E c \in LiveCalls :
       calls[c].hmacFail /\ calls[c].args.mid # Null /\ calls[c].path = "fallback"

ListCalls == {c \in Calls : calls[c].op = "list" /\ calls[c].pc = "done" /\ Len(calls[c].answers) > 0}

\* Identifiers host i returned to call record r (none when it failed)
Returned(r, i) == IF r.answers[i].ok THEN { r.answers[i].ids[k] : k \in 1..Len(r.answers[i].ids) } ELSE {}
ResultIds(r) == { r.result[k].messageId : k \in 1..Len(r.result) }

C14_AggregatedFailure ==
  \A c \in ListCalls :
    LET r == calls[c]
    IN (\A i \in 1..Len(r.answers) : ~r.answers[i].ok) =>
         /\ r.outcome = "rejected"
         /\ Len(r.err.hostErrors) = Len(r.answers)
         /\ \A i \in 1..Len(r.answers) : r.err.hostErrors[i] = r.answers[i].error

\* C15: the result of listMessages has one entry per distinct messageId; when
\* several hosts return the same messageId, the copy of the first such host in
\* host order (the default host first) is the entry and later copies are
\* discarded.
C15_FirstHostWins ==
  \A c \in ListCalls :
    LET r == calls[c]
        holders(id) == { i \in 1..Len(r.answers) : id \in Returned(r, i) }
    IN r.outcome = "resolved" =>
         /\ \A k, l \in 1..Len(r.result) : k # l => r.result[k].messageId # r.result[l].messageId
         /\ \A k \in 1..Len(r.result) :
              LET h == holders(r.result[k].messageId)
              IN /\ h # {}
                 /\ r.result[k].via = r.hosts[CHOOSE i \in h : \A j \in h : i <= j]

\* the default host and an advertised host returned the same message
C15_TwoCopies ==
  \E c \in ListCalls :
    LET r == calls[c]
    IN /\ r.outcome = "resolved"
       /\ Len(r.hosts) = 2
       /\ r.hosts[1] = DefaultHost
       /\ \E id \in MessageIds :
            /\ id \in Returned(r, 1) \cap Returned(r, 2)
            /\ \E k \in 1..Len(r.result) : r.result[k].messageId = id /\ r.result[k].via = DefaultHost

\* C16: the list returned by listMessages is sorted newest first: of any two
\* returned messages, the one created later comes first.
C16_NewestFirst ==
  \A c \in ListCalls :
    LET r == calls[c]
    IN r.outcome = "resolved" =>
         \A k, l \in 1..Len(r.result) : k < l => r.result[k].created_at >= r.result[l].created_at

AckCalls == {c \in Calls : calls[c].op = "ack" /\ calls[c].pc = "done" /\ Len(calls[c].answers) > 0}

\* C17: acknowledgeMessage succeeds if at least one host of the host set
\* accepts the acknowledgment, and fails only if every host rejects or errors.
C17_AnyHostAccepts ==
  \A c \in AckCalls :
    LET r == calls[c]
    IN /\ (\E i \in 1..Len(r.answers) : r.answers[i].ok) => r.outcome = "resolved" /\ r.value = "success"
       /\ r.outcome = "rejected" => \A i \in 1..Len(r.answers) : ~r.answers[i].ok

\* the default host failed and the advertised host accepted
C17_SecondHostAccepted ==
  \E c \in AckCalls :
    LET r == calls[c]
    IN /\ Len(r.answers) = 2
       /\ ~r.answers[1].ok
       /\ r.answers[2].ok
       /\ r.outcome = "resolved"

\* C18: when acknowledgeMessage fails because every host rejected or errored,
\* the failure it raises includes the error reported for each host.
C18_FailureListsHostErrors ==
  \A c \in AckCalls :
    LET r == calls[c]
    IN r.outcome = "rejected" =>
         /\ Len(r.err.hostErrors) = Len(r.answers)
         /\ \A i \in 1..Len(r.answers) : r.err.hostErrors[i] = r.answers[i].error

Listeners == {c \in Calls : calls[c].op = "listen" /\ calls[c].outcome = "resolved"}

C20_PaymentFailureSwallowed ==
  \A c \in ListCalls :
    LET r == calls[c]
    IN r.payFailed # {} =>
         /\ r.outcome = "resolved"
         /\ ResultIds(r) = UNION { Returned(r, i) : i \in 1..Len(r.answers) }
         /\ \A id \in r.payFailed :
              \E k \in 1..Len(r.result) :
                /\ r.result[k].messageId = id
                /\ r.result[k].body.form = "text"
                /\ id \notin r.undecryptable => r.result[k].body.text = Stored(id).body.text

\* a paid message whose internalization threw was returned decoded, next to
\* another message
C20_UnpaidButReturned ==
  \E c \in ListCalls :
    LET r == calls[c]
    IN /\ r.outcome = "resolved"
       /\ "c" \in r.payFailed
       /\ r.undecryptable = {}
       /\ Len(r.result) = 2
       /\ \E k \in 1..2 : r.result[k].messageId = "c" /\ r.result[k].body.text = "C"

\* sendMessage calls with checkPermissions that obtained a quote and ended
QuotedSends ==
  {c \in Calls : calls[c].op = "send" /\ calls[c].pc = "done" /\ calls[c].sm.perm
                 /\ getMessageBoxQuote(calls[c].quote)}

\* The outputs of a payment that pay the given payee
OutputsTo(payment, payee) == { i \in 1..Len(payment) : payment[i].payee = payee }

\* C21 (as stated): a quote with recipientFee = -1 rejects the send before a
\* payment is constructed and before the message is transmitted; with
\* recipientFee = 0 the message is sent with no payment attached; with
\* recipientFee > 0 the message is sent with a payment holding exactly one
\* recipient-fee output of exactly that amount.
C21_FeeBoundaries ==
  \A c \in QuotedSends :
    LET r == calls[c]
        sent == r.nHttp = 1
    IN /\ r.quote.recipientFee = -1 =>
            r.outcome = "rejected" /\ r.cause = "permission" /\ r.paymentData = <<>> /\ ~sent
       /\ (r.quote.recipientFee = 0 /\ sent) => ~r.http.payment /\ r.paymentData = <<>>
       /\ (r.quote.recipientFee > 0 /\ sent) =>
            /\ r.http.payment
            /\ Cardinality(OutputsTo(r.paymentData, "recipient")) = 1
            /\ \A i \in OutputsTo(r.paymentData, "recipient") :
                 r.paymentData[i].satoshis = r.quote.recipientFee

\* C21 (amended): as above, except that with recipientFee = 0 the message is
\* sent with no recipient-fee output: with no payment at all when the delivery
\* fee is zero too, and with a payment holding only the delivery-fee output
\* when the delivery fee is positive.
C21_RecipientFeeBoundaries ==
  \A c \in QuotedSends :
    LET r == calls[c]
        sent == r.nHttp = 1
    IN /\ r.quote.recipientFee = -1 =>
            r.outcome = "rejected" /\ r.cause = "permission" /\ r.paymentData = <<>> /\ ~sent
       /\ (r.quote.recipientFee = 0 /\ sent) =>
            /\ OutputsTo(r.paymentData, "recipient") = {}
            /\ r.http.payment = (r.quote.deliveryFee > 0)
            /\ r.http.payment = (r.paymentData # <<>>)
            /\ \A i \in 1..Len(r.paymentData) : r.paymentData[i].satoshis = r.quote.deliveryFee
       /\ (r.quote.recipientFee > 0 /\ sent) =>
            /\ r.http.payment
            /\ Cardinality(OutputsTo(r.paymentData, "recipient")) = 1
            /\ \A i \in OutputsTo(r.paymentData, "recipient") :
                 r.paymentData[i].satoshis = r.quote.recipientFee

\* a message was sent under a quote with recipientFee = 0 and a positive
\* delivery fee
C21_FreeRecipientPaidDelivery ==
  \E c \in QuotedSends :
    LET r == calls[c]
    IN /\ r.quote.recipientFee = 0
       /\ r.quote.deliveryFee > 0
       /\ r.nHttp = 1
       /\ r.http.payment
       /\ Len(r.paymentData) = 1

\* C22: for a quote that does not block the sender, whenever the recipient
\* fee or the delivery fee is positive the message is sent with a payment
\* that has one output per positive fee, of that fee's amount, whatever the
\* combination of a zero, positive or negative recipient fee with a zero or
\* positive delivery fee.
C22_PaymentForEveryPositiveFee ==
  \A c \in QuotedSends :
    LET r == calls[c]
        q == r.quote
        expected == (IF q.deliveryFee > 0 THEN <<[payee |-> "agent", satoshis |-> q.deliveryFee]>> ELSE <<>>)
                    \o (IF q.recipientFee > 0 THEN <<[payee |-> "recipient", satoshis |-> q.recipientFee]>>
                        ELSE <<>>)
    IN (q.recipientFee # -1 /\ r.nHttp = 1 /\ (q.recipientFee > 0 \/ q.deliveryFee > 0)) =>
         /\ r.http.payment
         /\ r.paymentData = expected

PermissionSends ==
  {c \in Calls : calls[c].op = "send" /\ calls[c].pc = "done" /\ calls[c].sm.perm
                 /\ calls[c].quote.kind # "none"}

\* C23: when the quote lacks the delivery agent's identity key, or building a
\* required payment output or the payment transaction fails, the send is
\* aborted and no /sendMessage request is issued; a payment that is
\* transmitted has an output for every positive fee of its quote.
C23_NoPartialPayment ==
  \A c \in PermissionSends :
    LET r == calls[c]
    IN /\ ((r.quote.kind = "ok" /\ ~r.quote.agentKey) \/ r.walletFail # "none") =>
            r.outcome = "rejected" /\ r.cause = "permission" /\ r.nHttp = 0 /\ ~r.http.payment
       /\ (r.nHttp = 1 /\ r.http.payment) =>
            /\ r.quote.deliveryFee > 0 => OutputsTo(r.paymentData, "agent") # {}
            /\ r.quote.recipientFee > 0 => OutputsTo(r.paymentData, "recipient") # {}

\* both fees were due and the recipient output could not be built
C23_SecondOutputFailed ==
  \E c \in PermissionSends :
    LET r == calls[c]
    IN /\ r.quote.deliveryFee > 0
       /\ r.quote.recipientFee > 0
       /\ r.walletFail = "recipient_key"
       /\ r.outcome = "rejected"
       /\ r.nHttp = 0

\* C26: sendMessage treats every non-success server response (a non-2xx
\* status, or a body whose status is not 'success') as a delivery failure,
\* and when the server provided a description the error raised carries it.
C26_FailureCarriesDescription ==
  \A c \in Calls :
    LET r == calls[c]
    IN (r.op = "send" /\ r.pc = "done" /\ r.response.kind \in {"http_error", "status_error"}) =>
         /\ r.outcome = "rejected"
         /\ r.response.description # "" =>
              \E i \in 1..Len(r.errParts) : r.errParts[i] = r.response.description

\* C25: automatic initialization publishes an advertisement only when its
\* directory query for (identity, host) returned none, and an operation
\* invoked after initialization succeeded makes no such query and publishes
\* nothing.
C25_AnointOnceIfAbsent ==
  \A c \in Calls :
    LET r == calls[c]
    IN /\ r.nBroadcast > 0 => r.initFound = "no"
       /\ r.nBroadcast <= 1
       /\ (r.op # "none" /\ r.initAtStart) => r.initFound = "?" /\ r.nBroadcast = 0

\* one call published the advertisement and a later call has completed
C25_LaterCallSkipsInit ==
  \E c, d \in Calls :
    /\ calls[c].nBroadcast = 1
    /\ calls[c].outcome = "resolved"
    /\ calls[d].initAtStart
    /\ calls[d].pc = "done"

\* C29: at every point of any sequence of connect, join, leave, disconnect
\* and reconnect operations, each room in the membership set has had a
\* 'joinRoom' event emitted on the channel the client holds now; after a
\* disconnect and a reconnect a room is in the set only if it was joined
\* again on the new channel.
C29_MembersJoinedOnCurrentChannel ==
  \A room \in joinedRooms :
    /\ socket # 0
    /\ \E c \in Calls :
         /\ calls[c].nJoinEmit > 0
         /\ calls[c].joinSock = socket
         /\ RoomId(myIdentityKey, calls[c].args.box) = room

\* C30: when two sendLiveMessage calls to the same recipient and message box
\* are in flight at the same time, the resolution logic of a call is run only
\* by the acknowledgment of its own message: in a step where the server's
\* acknowledgment of one call's message is delivered, no call with a different
\* message is resolved via push or sent to its fallback.
C30_OwnAcknowledgmentOnly ==
  [][\A c0, c \in Calls :
       (/\ calls[c0].ackOwed /\ ~calls'[c0].ackOwed
        /\ ~calls[c].handled /\ calls'[c].handled)
       => (c = c0 \/ calls[c].finalId = calls[c0].finalId)]_vars

\* C28: acceptPayment throws when the internalization of the payment fails,
\* and then the payment message is not acknowledged; the message is
\* acknowledged only after the internalization has succeeded.
C28_AcceptThrowsOnFailure ==
  \A c \in Calls :
    LET r == calls[c]
    IN (r.op = "accept" /\ r.pc = "done") =>
         /\ r.accepted = "no" => r.outcome = "rejected" /\ r.nAck = 0
         /\ r.nAck > 0 => r.accepted = "yes"

\* C27: rejectPayment sends a refund of amount - 1000 to the sender only
\* after the incoming payment has been internalized: when the acceptance
\* fails no refund is sent; when amount - 1000 < 1000 no refund is sent and
\* the payment message is only acknowledged.
C27_RefundOnlyAfterAcceptance ==
  \A c \in Calls :
    LET r == calls[c]
    IN r.op = "reject" =>
         /\ r.nRefund > 0 => r.accepted = "yes" /\ r.refund = r.args.amount - 1000
         /\ r.accepted = "no" => r.nRefund = 0
         /\ r.args.amount - 1000 < 1000 => r.nRefund = 0 /\ r.accepted = "?"

\* C24: resolveHostForRecipient never raises and always returns a non-empty
\* host: the host of the first advertisement of the answer that decodes
\* (malformed entries are skipped), else the configured default host.
C24_AlwaysNonEmptyHost ==
  \A c \in Calls :
    LET r == calls[c]
        ads == SelectSeq(r.lookup.outputs, LAMBDA o : o.kind = "ad")
    IN (r.op = "resolve" /\ r.pc = "done") =>
         /\ r.outcome = "resolved"
         /\ r.value # ""
         /\ r.value = IF r.lookup.type = "output-list" /\ Len(ads) > 0 THEN ads[1].host ELSE host

\* Calls that join a room before doing anything else
JoinCalls == { c \in Calls : calls[c].op \in {"join", "listen", "sendLive"} }

\* C31: when two operations that join the same room overlap in time,
\* exactly one 'joinRoom' event is transmitted for that room.
C31_OneJoinPerRoom ==
  \A c, d \in JoinCalls :
    (/\ c < d
     /\ calls[c].args.box = calls[d].args.box
     /\ ~calls[d].after
     /\ calls[c].outcome = "resolved" /\ calls[d].outcome = "resolved")
    => calls[c].nJoinEmit + calls[d].nJoinEmit = 1

\* C32: whenever initializeConnection returns successfully the client holds
\* a channel handle, whatever the order of the connect, disconnect,
\* authenticationSuccess and authenticationFailed events during the wait.
C32_HandleHeldAtReturn ==
  [][\A c \in Calls :
       (/\ calls[c].pc \in {"ic_start", "ic_wait"}
        /\ calls'[c].pc # calls[c].pc
        /\ calls'[c].pc # "ic_wait"
        /\ calls'[c].outcome # "rejected")
       => socket' # 0]_vars

\* Calls whose init() published an advertisement (anointHost returned)
Published == { c \in Calls : calls[c].nBroadcast > 0 /\ calls[c].cause # "init" }

\* C33: when several operations start on a client that is not yet
\* initialized and overlap in time, at most one advertisement for
\* (identity, host) is published.
C33_AtMostOneAdvertisement ==
  Cardinality(Published) <= 1

\* The ids whose payment a returned listMessages call submitted to
\* walletClient.internalizeAction
Submitted(c) ==
  IF calls[c].op = "list" /\ calls[c].outcome = "resolved"
  THEN PaidIds(dedupMap(<<>>, Fulfilled(calls[c].settled)))
  ELSE {}

\* C34: the payment attached to a stored message is submitted for
\* internalization at most once, within one listMessages call and across
\* repeated listMessages calls made before the message is acknowledged.
C34_InternalizedAtMostOnce ==
  \A c, d \in Calls : c # d => Submitted(c) \cap Submitted(d) = {}

\* C35: every sendLiveMessage call eventually settles (resolves or rejects),
\* provided timers fire and every HTTP request and wallet call completes; in
\* particular when no acknowledgment ever arrives and when the channel
\* disconnects while the call waits for the acknowledgment.
C35_EverySendSettles ==
  \A c \in Calls : (calls[c].op = "sendLive") ~> (calls[c].pc = "done")

\* A push that was never acknowledged, on a channel that was lost during the
\* wait, settled through the timer.
C35_SettledWithoutAck ==
  \E c \in Calls :
    /\ calls[c].op = "sendLive" /\ calls[c].pc = "done"
    /\ calls[c].nPush = 1
    /\ calls[c].path = "fallback"
    /\ socket = 0

\* C36: once a sendLiveMessage call has been decided by its acknowledgment
\* or by its timer, the acknowledgment listener of that call is no longer
\* registered on the socket it was registered on.
C36_DecidedCallsDetached ==
  \A c \in Calls : calls[c].handled => ~calls[c].listening

\* C37: the host returned by resolveHostForRecipient(X) is the configured
\* host or the host of an advertisement token whose identityKey field is X;
\* a token of the lookup answer that names another identity is never used.
C37_OnlyTokensOfRecipient ==
  \A c \in Calls :
    LET r == calls[c]
    IN (r.op = "resolve" /\ r.pc = "done") =>
         \/ r.value = host
         \/ \E i \in 1..Len(r.lookup.outputs) :
              /\ r.lookup.outputs[i].kind = "ad"
              /\ r.lookup.outputs[i].host = r.value
              /\ r.lookup.outputs[i].identityKey = r.args.recipient

\* C38: live messages received in one room are handed to onMessage in the
\* order in which they arrived, also when some of them are encrypted and
\* others are plaintext.
C38_DeliveredInArrivalOrder ==
  \A c \in Calls :
    \A i, j \in 1..Len(calls[c].delivered) :
      i < j => calls[c].delivered[i].n < calls[c].delivered[j].n

\* C39: for the same client state and the same arguments without a host
\* override, acknowledgeMessage fans out to exactly the hosts listMessages
\* queries: the configured host and every host advertised for the caller's
\* identity, each once; also when an originator is passed.
C39_SameHostSet ==
  \A c \in Calls :
    LET r == calls[c]
    IN (r.op = "hosts" /\ r.pc = "done" /\ r.args.host = Null) =>
         /\ r.hosts = r.ackHosts
         /\ r.ackHosts = Unique(<<host>> \o r.dir)

\* The hosts a client gets from a host option that is given
GivenHosts == { Trim(option) : option \in HostOptions \ {Null} }

\* C40: a client constructed without a host uses the default host of its
\* network preset: the testnet default host when networkPreset is 'testnet',
\* and the mainnet default host otherwise.
C40_DefaultHostOfPreset ==
  host \notin GivenHosts =>
    host = IF networkPreset = "testnet" THEN TestnetHost ELSE DefaultHost

====
